---- MODULE Spec2Model ----
(***************************************************************************)
(* Model of solver/model.py: photos, the tag-overlap score, the two slide  *)
(* variants and the slideshow with its incrementally maintained score.     *)
(* Text (file content, to_string output) is a sequence of one-character    *)
(* strings, so that splitting, joining and decimal formatting are          *)
(* computed rather than assumed.                                           *)
(***************************************************************************)
EXTENDS Integers, Sequences, FiniteSets

VARIABLES
    photos,     \* Slideshow run: the photo list the slides are built from
    slides,     \* Slideshow.slides
    _score,     \* Slideshow._score
    ret,        \* Slideshow run: outcome of the last call
    s,          \* Slide run: first slide under test (None before construction)
    t,          \* Slide run: second slide under test
    res,        \* Slide run: outcome of the last call
    content,    \* Parse run: text returned by filename.read_text()
    pc,         \* Parse run: position inside Photo.from_file
    photos_lines, \* Parse run: content.split("\n")[1:-1]
    pid,        \* Parse run: enumerate() index of the line being parsed
    acc,        \* Parse run: the list under construction in the comprehension
    result      \* Parse run: what Photo.from_file returned or raised

vars == <<photos, slides, _score, ret, s, t, res,
          content, pc, photos_lines, pid, acc, result>>

slideshowVars == <<photos, slides, _score, ret>>
slideVars == <<s, t, res>>
parseVars == <<content, pc, photos_lines, pid, acc, result>>

(***************************************************************************)
(* Bounds                                                                  *)
(***************************************************************************)
\* number of photos in the list a slideshow run draws its slides from
NPhotos == 2
\* longest slideshow built by a slideshow run
MaxSlides == 3
\* largest photo id of a slide run
MaxId == 2
\* most photo lines in a parsed file
MaxLines == 3

\* tag sets carried by the photos of a slideshow run
TagSets == {{"a", "b", "c", "d"}, {"c", "d", "e", "f"}, {"a", "c"}}
\* tags carried by the horizontal photos of a scoring run
ScoreTags == {"a", "b", "c", "d", "e", "f"}
\* tags carried by the vertical photos of a scoring run
VerticalScoreTags == {"a", "b", "c", "d"}

\* the absence of an object, and the exceptions a call can raise, as objects
None == [cls |-> "NoneType"]
AssertionError == [cls |-> "AssertionError"]
ValueError == [cls |-> "ValueError"]
IndexError == [cls |-> "IndexError"]

(***************************************************************************)
(* score_tags                                                              *)
(***************************************************************************)
min(a, b, c) ==
    IF a <= b /\ a <= c THEN a
    ELSE IF b <= c THEN b
    ELSE c

\* score_tags without second_diff in the minimum
score_tagsNoSecondDiff(first, second) ==
    LET common_tags == Cardinality(first \cap second)
        first_diff  == Cardinality(first) - common_tags
    IN  min(common_tags, first_diff, first_diff)

\* score_tags with second_diff taken against len(first) instead of common_tags
score_tagsSymDiff(first, second) ==
    LET common_tags == Cardinality(first \cap second)
        first_diff  == Cardinality(first) - common_tags
        second_diff == Cardinality(second) - Cardinality(first)
    IN  min(common_tags, first_diff, second_diff)

score_tags(first, second) ==
    LET common_tags == Cardinality(first \cap second)
        first_diff  == Cardinality(first) - common_tags
        second_diff == Cardinality(second) - common_tags
    IN  min(common_tags, first_diff, second_diff)

(***************************************************************************)
(* Photo                                                                   *)
(***************************************************************************)
Photo(photo_id, orientation, tags) ==
    [cls |-> "Photo", photo_id |-> photo_id, orientation |-> orientation,
     tags |-> tags]

(***************************************************************************)
(* Slide variants.  A constructor whose assert fails yields AssertionError *)
(* instead of a slide.                                                     *)
(***************************************************************************)
HorizontalSlide(photo) ==
    IF photo.orientation = "H"
    THEN [cls |-> "HorizontalSlide", photo |-> photo]
    ELSE AssertionError

\* VerticalSlide whose assert looks at first only
VerticalSlideFirstOnly(first, second) ==
    IF first.orientation = "V"
    THEN [cls |-> "VerticalSlide", first |-> first, second |-> second]
    ELSE AssertionError

VerticalSlide(first, second) ==
    IF first.orientation = "V" /\ second.orientation = "V"
    THEN [cls |-> "VerticalSlide", first |-> first, second |-> second]
    ELSE AssertionError

\* tags of a VerticalSlide without the union with second.tags
SlideTagsFirstOnly(slide) ==
    IF slide.cls = "HorizontalSlide"
    THEN slide.photo.tags
    ELSE slide.first.tags

SlideTags(slide) ==
    IF slide.cls = "HorizontalSlide"
    THEN slide.photo.tags
    ELSE slide.first.tags \cup slide.second.tags

SlideScore(self, other) == score_tags(SlideTags(self), SlideTags(other))

\* sorted((a, b)) as a tuple
sorted(a, b) == IF a <= b THEN <<a, b>> ELSE <<b, a>>

\* hash() of a tuple of ints: a deterministic, order-sensitive function of
\* the tuple's value, kept symbolic
hash(tuple) == <<"hash", tuple>>

\* this_id without sorted()
VerticalIdUnsorted(slide) == <<slide.first.photo_id, slide.second.photo_id>>

VerticalId(slide) == sorted(slide.first.photo_id, slide.second.photo_id)

SlideHash(self) ==
    IF self.cls = "HorizontalSlide"
    THEN self.photo.photo_id
    ELSE hash(VerticalId(self))

SlideEq(self, other) ==
    IF self.cls = "HorizontalSlide"
    THEN other.cls = "HorizontalSlide"
         /\ self.photo.photo_id = other.photo.photo_id
    ELSE IF other.cls # "VerticalSlide"
         THEN FALSE
         ELSE VerticalId(self) = VerticalId(other)

(***************************************************************************)
(* Text                                                                    *)
(***************************************************************************)
Digit(d) == CASE d = 0 -> "0" [] d = 1 -> "1" [] d = 2 -> "2" [] d = 3 -> "3"
              [] d = 4 -> "4" [] d = 5 -> "5" [] d = 6 -> "6" [] d = 7 -> "7"
              [] d = 8 -> "8" [] d = 9 -> "9"

RECURSIVE str(_)
\* str() of a non-negative int
str(n) == IF n < 10 THEN <<Digit(n)>> ELSE str(n \div 10) \o <<Digit(n % 10)>>

RECURSIVE join(_, _)
\* sep.join(parts)
join(sep, parts) ==
    IF parts = <<>> THEN <<>>
    ELSE IF Len(parts) = 1 THEN parts[1]
    ELSE parts[1] \o sep \o join(sep, Tail(parts))

SlideRepr(slide) ==
    IF slide.cls = "HorizontalSlide"
    THEN str(slide.photo.photo_id)
    ELSE str(slide.first.photo_id) \o <<" ">> \o str(slide.second.photo_id)

(***************************************************************************)
(* Parsing                                                                 *)
(***************************************************************************)
RECURSIVE split(_, _)
\* text.split(sep) for a one-character sep
split(text, sep) ==
    IF \A i \in 1..Len(text) : text[i] # sep
    THEN <<text>>
    ELSE LET k == CHOOSE i \in 1..Len(text) :
                      text[i] = sep /\ \A j \in 1..(i - 1) : text[j] # sep
         IN  <<SubSeq(text, 1, k - 1)>> \o split(SubSeq(text, k + 1, Len(text)), sep)

\* list[1:-1]
slice_1_m1(list) == SubSeq(list, 2, Len(list) - 1)

\* list[2:]
slice_2(list) == SubSeq(list, 3, Len(list))

DigitChars == {"0", "1", "2", "3", "4", "5", "6", "7", "8", "9"}

DigitValue(c) == CHOOSE d \in 0..9 : Digit(d) = c

\* whether int(token) returns (a non-empty run of decimal digits) rather
\* than raising ValueError
int_ok(token) == token # <<>> /\ \A i \in 1..Len(token) : token[i] \in DigitChars

RECURSIVE int(_)
\* int(token) for a token of decimal digits
int(token) ==
    IF Len(token) = 1 THEN DigitValue(token[1])
    ELSE 10 * int(SubSeq(token, 1, Len(token) - 1)) + DigitValue(token[Len(token)])

\* Photo.from_str: the Photo, or the exception the line raises
from_str(photo_id, line) ==
    LET args == split(line, " ")
        orientation == args[1]
        tags == {slice_2(args)[i] : i \in 1..Len(slice_2(args))}
    IN  IF orientation \notin {<<"H">>, <<"V">>} THEN AssertionError
        ELSE IF Len(args) < 2 THEN IndexError
        ELSE IF ~int_ok(args[2]) THEN ValueError
        ELSE IF Cardinality(tags) # int(args[2]) THEN AssertionError
        ELSE Photo(photo_id, orientation[1], tags)

(***************************************************************************)
(* Slideshow                                                               *)
(***************************************************************************)
Slideshow == [slides |-> <<>>, _score |-> 0]

\* append scoring the new slide against slides[0] instead of slides[-1]
appendAgainstFirst(self, slide) ==
    [slides |-> Append(self.slides, slide),
     _score |-> IF self.slides # <<>>
                THEN self._score + SlideScore(self.slides[1], slide)
                ELSE self._score]

append(self, slide) ==
    [slides |-> Append(self.slides, slide),
     _score |-> IF self.slides # <<>>
                THEN self._score + SlideScore(self.slides[Len(self.slides)], slide)
                ELSE self._score]

to_string(self) ==
    str(Len(self.slides)) \o <<"\n">>
        \o join(<<"\n">>, [i \in 1..Len(self.slides) |-> SlideRepr(self.slides[i])])
        \o <<"\n">>

RECURSIVE from_listLoop(_, _)
from_listLoop(slideshow, slides_list) ==
    IF slides_list = <<>> THEN slideshow
    ELSE from_listLoop(append(slideshow, Head(slides_list)), Tail(slides_list))

\* from_list walking the list backwards
from_listReversed(slides_list) ==
    from_listLoop(Slideshow,
        [i \in 1..Len(slides_list) |-> slides_list[Len(slides_list) + 1 - i]])

from_list(slides_list) == from_listLoop(Slideshow, slides_list)

score(self) == self._score

(***************************************************************************)
(* Idle values of the variables a run does not use                         *)
(***************************************************************************)
SlideshowIdle == photos = <<>> /\ slides = <<>> /\ _score = 0 /\ ret = None

SlideIdle == s = None /\ t = None /\ res = None

ParseIdle ==
    /\ content = <<>>
    /\ pc = "idle"
    /\ photos_lines = <<>>
    /\ pid = 0
    /\ acc = <<>>
    /\ result = None

(***************************************************************************)
(* Slideshow run: a photo list is fixed, then slides built from it are     *)
(* appended one at a time to a new Slideshow; to_string and from_list are  *)
(* called in between.  A slide whose constructor raises never reaches      *)
(* append.                                                                 *)
(***************************************************************************)
PhotoLists ==
    {pl \in [1..NPhotos -> [cls : {"Photo"},
                            photo_id : 0..(NPhotos - 1),
                            orientation : {"H", "V"},
                            tags : TagSets]] :
        \A i \in 1..NPhotos : pl[i].photo_id = i - 1}

Init ==
    /\ photos \in PhotoLists
    /\ slides = Slideshow.slides
    /\ _score = Slideshow._score
    /\ ret = [op |-> "__init__"]
    /\ SlideIdle
    /\ ParseIdle

Self == [slides |-> slides, _score |-> _score]

AppendSlide(slide) ==
    /\ slide.cls # "AssertionError"
    /\ Len(slides) < MaxSlides
    /\ slides' = append(Self, slide).slides
    /\ _score' = append(Self, slide)._score
    /\ ret' = [op |-> "append"]

AppendHorizontal ==
    /\ \E i \in 1..Len(photos) : AppendSlide(HorizontalSlide(photos[i]))
    /\ UNCHANGED <<photos, slideVars, parseVars>>

AppendVertical ==
    /\ \E i, j \in 1..Len(photos) :
          AppendSlide(VerticalSlide(photos[i], photos[j]))
    /\ UNCHANGED <<photos, slideVars, parseVars>>

CallToString ==
    /\ ret' = [op |-> "to_string", value |-> to_string(Self)]
    /\ UNCHANGED <<photos, slides, _score, slideVars, parseVars>>

CallFromList ==
    /\ ret' = [op |-> "from_list", value |-> from_list(slides)]
    /\ UNCHANGED <<photos, slides, _score, slideVars, parseVars>>

Next ==
    \/ AppendHorizontal
    \/ AppendVertical
    \/ CallToString
    \/ CallFromList

Spec == Init /\ [][Next]_vars

(***************************************************************************)
(* Slide run: slides are constructed from photos into the two slots s and  *)
(* t (a constructor that raises leaves the slot as it was), then compared  *)
(* and hashed.                                                             *)
(***************************************************************************)
SlidePhotos ==
    {Photo(i, o, {"a"}) : i \in 0..MaxId, o \in {"H", "V"}}

InitSlide ==
    /\ s = None
    /\ t = None
    /\ res = [op |-> "none"]
    /\ SlideshowIdle
    /\ ParseIdle

Construct(slot, made, call) ==
    /\ res' = [op |-> "construct", call |-> call, value |-> made]
    /\ IF made.cls = "AssertionError"
       THEN UNCHANGED <<s, t>>
       ELSE IF slot = "s"
            THEN s' = made /\ t' = t
            ELSE t' = made /\ s' = s

ConstructHorizontal ==
    /\ \E slot \in {"s", "t"}, photo \in SlidePhotos :
          Construct(slot, HorizontalSlide(photo),
                    [cls |-> "HorizontalSlide", args |-> <<photo>>])
    /\ UNCHANGED <<slideshowVars, parseVars>>

ConstructVertical ==
    /\ \E slot \in {"s", "t"}, first, second \in SlidePhotos :
          Construct(slot, VerticalSlide(first, second),
                    [cls |-> "VerticalSlide", args |-> <<first, second>>])
    /\ UNCHANGED <<slideshowVars, parseVars>>

CallEq ==
    /\ s # None /\ t # None
    /\ res' = [op |-> "__eq__", value |-> SlideEq(s, t)]
    /\ UNCHANGED <<s, t, slideshowVars, parseVars>>

CallHash ==
    /\ s # None /\ t # None
    /\ res' = [op |-> "__hash__", value |-> <<SlideHash(s), SlideHash(t)>>]
    /\ UNCHANGED <<s, t, slideshowVars, parseVars>>

NextSlide ==
    \/ ConstructHorizontal
    \/ ConstructVertical
    \/ CallEq
    \/ CallHash

SpecSlide == InitSlide /\ [][NextSlide]_vars

(***************************************************************************)
(* Scoring run: two slides of any variants over all tag sets, scored in    *)
(* both directions.                                                        *)
(***************************************************************************)
ScoreSlides ==
    {HorizontalSlide(Photo(0, "H", A)) : A \in SUBSET ScoreTags}
    \cup {VerticalSlide(Photo(1, "V", A), Photo(2, "V", B)) :
             A \in SUBSET VerticalScoreTags, B \in SUBSET VerticalScoreTags}

InitScore ==
    /\ s \in ScoreSlides
    /\ t \in ScoreSlides
    /\ res = [op |-> "none"]
    /\ SlideshowIdle
    /\ ParseIdle

CallScore ==
    /\ res.op = "none"
    /\ res' = [op |-> "score", value |-> SlideScore(s, t),
               reverse |-> SlideScore(t, s)]
    /\ UNCHANGED <<s, t, slideshowVars, parseVars>>

NextScore == CallScore

SpecScore == InitScore /\ [][NextScore]_vars

(***************************************************************************)
(* Parse run: Photo.from_file on the text of one file.  The list           *)
(* comprehension is one step per line; an exception raised by from_str     *)
(* leaves from_file at once and is its outcome.                            *)
(***************************************************************************)
PhotoLines ==
    {<<"H", " ", "1", " ", "a">>,                       \* H 1 a
     <<"V", " ", "2", " ", "a", " ", "b">>,             \* V 2 a b
     <<"X", " ", "1", " ", "a">>,                       \* X 1 a
     <<"H", " ", "2", " ", "a">>,                       \* H 2 a
     <<"V", " ", "2", " ", "a", " ", "a">>,             \* V 2 a a
     <<"H", " ", "0">>,                                 \* H 0
     <<"H", " ", "x", " ", "a">>,                       \* H x a
     <<"H">>,                                           \* H
     <<"V", " ", "0", "1", " ", "b">>}                  \* V 01 b

\* the photo-count line of a file; from_file never reads it
Headers == {<<"2">>, <<"1", "7">>}

LineLists == UNION {[1..n -> PhotoLines] : n \in 0..MaxLines}

\* files that end with a newline, files that do not, and the empty file
Contents ==
    {join(<<"\n">>, <<h>> \o ls \o <<<<>>>>) : h \in Headers, ls \in LineLists}
    \cup {join(<<"\n">>, <<h>> \o ls) : h \in Headers, ls \in LineLists}
    \cup {<<>>}

InitParse ==
    /\ content \in Contents
    /\ pc = "read_text"
    /\ photos_lines = <<>>
    /\ pid = 0
    /\ acc = <<>>
    /\ result = None
    /\ SlideshowIdle
    /\ SlideIdle

\* the slice [1:] instead of [1:-1]
SplitLinesKeepLast ==
    /\ pc = "read_text"
    /\ photos_lines' = SubSeq(split(content, "\n"), 2, Len(split(content, "\n")))
    /\ pc' = "comprehension"
    /\ UNCHANGED <<content, pid, acc, result, slideshowVars, slideVars>>

\* photos_lines = content.split("\n")[1:-1]
SplitLines ==
    /\ pc = "read_text"
    /\ photos_lines' = slice_1_m1(split(content, "\n"))
    /\ pc' = "comprehension"
    /\ UNCHANGED <<content, pid, acc, result, slideshowVars, slideVars>>

\* a comprehension that skips a line from_str rejects instead of raising
ParseLineSkipBad ==
    /\ pc = "comprehension"
    /\ pid < Len(photos_lines)
    /\ LET photo == from_str(pid, photos_lines[pid + 1])
       IN  IF photo.cls = "Photo"
           THEN /\ acc' = Append(acc, photo)
                /\ pid' = pid + 1
                /\ UNCHANGED <<pc, result>>
           ELSE /\ pid' = pid + 1
                /\ UNCHANGED <<acc, pc, result>>
    /\ UNCHANGED <<content, photos_lines, slideshowVars, slideVars>>

\* one element of [Photo.from_str(pid, x) for pid, x in enumerate(photos_lines)]
ParseLine ==
    /\ pc = "comprehension"
    /\ pid < Len(photos_lines)
    /\ LET photo == from_str(pid, photos_lines[pid + 1])
       IN  IF photo.cls = "Photo"
           THEN /\ acc' = Append(acc, photo)
                /\ pid' = pid + 1
                /\ UNCHANGED <<pc, result>>
           ELSE /\ result' = photo
                /\ pc' = "raised"
                /\ UNCHANGED <<acc, pid>>
    /\ UNCHANGED <<content, photos_lines, slideshowVars, slideVars>>

\* the comprehension is exhausted: from_file returns the list
ReturnPhotos ==
    /\ pc = "comprehension"
    /\ pid = Len(photos_lines)
    /\ result' = [cls |-> "list", items |-> acc]
    /\ pc' = "returned"
    /\ UNCHANGED <<content, photos_lines, pid, acc, slideshowVars, slideVars>>

NextParse ==
    \/ SplitLines
    \/ ParseLine
    \/ ReturnPhotos

SpecParse == InitParse /\ [][NextParse]_vars

(***************************************************************************)
(* Vocabulary of the properties                                            *)
(***************************************************************************)
\* the sum of score(slides[i], slides[i+1]) over a rescan of the list
RECURSIVE AdjacentSum(_)
AdjacentSum(list) ==
    IF Len(list) <= 1 THEN 0
    ELSE score_tags(SlideTags(list[1]), SlideTags(list[2])) + AdjacentSum(Tail(list))

IsSlide(x) == x.cls \in {"HorizontalSlide", "VerticalSlide"}

\* the tag set the data model gives a slide
TagSetOf(slide) ==
    IF slide.cls = "HorizontalSlide"
    THEN slide.photo.tags
    ELSE {tag \in ScoreTags : tag \in slide.first.tags \/ tag \in slide.second.tags}

IsMinOf(m, a, b, c) == m \in {a, b, c} /\ m <= a /\ m <= b /\ m <= c

\* the unordered pair of photo ids of a vertical slide
IdPair(slide) == {slide.first.photo_id, slide.second.photo_id}

\* whether every photo a slide wraps has the orientation its variant needs
OrientationMatches(slide) ==
    IF slide.cls = "HorizontalSlide"
    THEN slide.photo.orientation = "H"
    ELSE slide.first.orientation = "V" /\ slide.second.orientation = "V"

\* the lines of a text, cut at its newline characters
Newlines(text) == {i \in 1..Len(text) : text[i] = "\n"}

NthNewline(text, n) ==
    CHOOSE i \in Newlines(text) :
        Cardinality({j \in Newlines(text) : j <= i}) = n

NumLines(text) == Cardinality(Newlines(text)) + 1

LineOf(text, k) ==
    SubSeq(text,
           IF k = 1 THEN 1 ELSE NthNewline(text, k - 1) + 1,
           IF k = NumLines(text) THEN Len(text) ELSE NthNewline(text, k) - 1)

\* the lines of the file other than its first and its last
Retained(text) ==
    [i \in 1..(IF NumLines(text) > 2 THEN NumLines(text) - 2 ELSE 0) |->
        LineOf(text, i + 1)]

\* a photo line the format rejects: a wrong orientation token, or a declared
\* tag_count that is not the number of distinct tag tokens after it
BadLine(line) ==
    LET tokens == split(line, " ")
        distinct == {tokens[i] : i \in 3..Len(tokens)}
    IN  \/ tokens[1] \notin {<<"H">>, <<"V">>}
        \/ Len(tokens) < 2
        \/ ~int_ok(tokens[2])
        \/ int(tokens[2]) # Cardinality(distinct)

DeclaredCount(line) == int(split(line, " ")[2])

(***************************************************************************)
(* Properties of the slideshow run (Spec)                                  *)
(***************************************************************************)
\* C1: after any sequence of appends to a new Slideshow, score() is the sum
\* of score(slides[i], slides[i+1]) recomputed by rescanning the slide list;
\* it is 0 for no slide and for one slide, and with two slides it is exactly
\* the score of the one transition.
C1_ScoreIsAdjacentSum ==
    /\ score(Self) = AdjacentSum(slides)
    /\ Len(slides) <= 1 => score(Self) = 0
    /\ Len(slides) = 2 =>
          score(Self) = score_tags(SlideTags(slides[1]), SlideTags(slides[2]))

\* three vertical slides with two scoring transitions
C1_Witness ==
    /\ Len(slides) = 3
    /\ \A i \in 1..3 : slides[i].cls = "VerticalSlide"
    /\ SlideScore(slides[1], slides[2]) = 2
    /\ SlideScore(slides[2], slides[3]) = 2
    /\ _score = 4

\* C8: from_list(list) ends with the same slide sequence and the same
\* running score as an empty Slideshow to which the slides of the list were
\* appended one by one, for the empty list and lists with repeats too.
C8_FromListIsAppends ==
    ret.op = "from_list" =>
        /\ ret.value.slides = slides
        /\ ret.value._score = _score

\* from_list on a list of three slides with a repeated slide and a score
C8_Witness ==
    /\ ret.op = "from_list"
    /\ Len(slides) = 3
    /\ slides[1] = slides[3]
    /\ slides[1] # slides[2]
    /\ ret.value._score > 0

\* C9: for a Slideshow of N >= 0 slides, to_string() is exactly N + 1
\* newline-terminated lines: the first is N in decimal, line i + 1 is the
\* photo id of slide i if it is horizontal and "first_id second_id" in
\* construction order if it is vertical.
C9_ToStringLines ==
    ret.op = "to_string" =>
        LET out == ret.value
            N == Len(slides)
        IN  /\ out # <<>>
            /\ out[Len(out)] = "\n"
            /\ Cardinality(Newlines(out)) = N + 1
            /\ LineOf(out, 1) = str(N)
            /\ \A i \in 1..N :
                  LineOf(out, i + 1) =
                      IF slides[i].cls = "HorizontalSlide"
                      THEN str(slides[i].photo.photo_id)
                      ELSE str(slides[i].first.photo_id) \o <<" ">>
                               \o str(slides[i].second.photo_id)

\* C10: across any sequence of appends the running score is never negative
\* and never decreases.
C10_ScoreMonotone ==
    /\ [](_score >= 0)
    /\ [][_score' >= _score]_vars

\* a slideshow whose first transition raised the score and whose second
\* left it as it was
C10_Witness ==
    /\ Len(slides) = 3
    /\ SlideScore(slides[1], slides[2]) > 0
    /\ SlideScore(slides[2], slides[3]) = 0
    /\ _score = SlideScore(slides[1], slides[2])

(***************************************************************************)
(* Properties of the scoring run (SpecScore)                               *)
(***************************************************************************)
\* C2: for two slides s and t of any variants, s.score(t) is
\* min(|A \cap B|, |A| - |A \cap B|, |B| - |A \cap B|) for their tag sets A
\* and B, a HorizontalSlide's being its photo's tags and a VerticalSlide's
\* the union of its two photos' tags; {a,b,c} against {c,d,e} gives 1 and
\* {a,b} against {a,b,c} gives 0.
C2_SlideScoreIsMin ==
    res.op = "score" =>
        LET A == TagSetOf(s)
            B == TagSetOf(t)
            common == Cardinality({tag \in A : tag \in B})
        IN  /\ IsMinOf(res.value, common,
                       Cardinality(A) - common, Cardinality(B) - common)
            /\ (A = {"a", "b", "c"} /\ B = {"c", "d", "e"}) => res.value = 1
            /\ (A = {"a", "b"} /\ B = {"a", "b", "c"}) => res.value = 0

\* a vertical slide whose union {a,b,c,d} scores 2 against a horizontal one
C2_Witness ==
    /\ res.op = "score"
    /\ s.cls = "VerticalSlide"
    /\ s.first.tags = {"a", "b"}
    /\ s.second.tags = {"c", "d"}
    /\ t.cls = "HorizontalSlide"
    /\ t.photo.tags = {"c", "d", "e", "f"}
    /\ res.value = 2

\* C3: score_tags is symmetric, so s.score(t) = t.score(s) for any two
\* slides.
C3_ScoreSymmetric ==
    res.op = "score" => res.value = res.reverse

\* a positive score between slides of different variants and sizes
C3_Witness ==
    /\ res.op = "score"
    /\ s.cls = "HorizontalSlide"
    /\ t.cls = "VerticalSlide"
    /\ Cardinality(SlideTags(s)) # Cardinality(SlideTags(t))
    /\ res.value > 0
    /\ res.reverse > 0

(***************************************************************************)
(* Properties of the slide run (SpecSlide)                                 *)
(***************************************************************************)
\* C4: two VerticalSlides are equal exactly when their unordered pairs of
\* photo ids are equal, and then they have the same hash; so
\* VerticalSlide(p1, p2) and VerticalSlide(p2, p1) are equal and hash alike.
C4_VerticalIdentityUnordered ==
    /\ (res.op = "__eq__" /\ s.cls = "VerticalSlide" /\ t.cls = "VerticalSlide")
          => (res.value <=> IdPair(s) = IdPair(t))
    /\ (res.op = "__hash__" /\ s.cls = "VerticalSlide" /\ t.cls = "VerticalSlide"
            /\ IdPair(s) = IdPair(t))
          => res.value[1] = res.value[2]

\* the hashes of VerticalSlide(p1, p2) and VerticalSlide(p2, p1), p1 # p2
C4_Witness ==
    /\ res.op = "__hash__"
    /\ s.cls = "VerticalSlide"
    /\ t.cls = "VerticalSlide"
    /\ s.first = t.second
    /\ s.second = t.first
    /\ s.first.photo_id # s.second.photo_id
    /\ res.value[1] = res.value[2]

\* C5: HorizontalSlide(photo) fails unless the photo is horizontal and
\* VerticalSlide(first, second) fails unless both photos are vertical; a
\* failed construction yields no slide, so every slide held wraps only
\* photos of the matching orientation.
C5_ConstructionRejectsOrientation ==
    /\ res.op = "construct" =>
          LET args == res.call.args
              wanted == IF res.call.cls = "HorizontalSlide" THEN "H" ELSE "V"
              allMatch == \A i \in 1..Len(args) : args[i].orientation = wanted
          IN  /\ allMatch <=> IsSlide(res.value)
              /\ ~allMatch <=> res.value = AssertionError
              /\ IsSlide(res.value) =>
                    /\ res.value.cls = res.call.cls
                    /\ OrientationMatches(res.value)
    /\ IsSlide(s) => OrientationMatches(s)
    /\ IsSlide(t) => OrientationMatches(t)

\* VerticalSlide(first, second) rejected for its second photo alone, with a
\* slide already held
C5_Witness ==
    /\ res.op = "construct"
    /\ res.call.cls = "VerticalSlide"
    /\ res.call.args[1].orientation = "V"
    /\ res.call.args[2].orientation = "H"
    /\ res.value = AssertionError
    /\ IsSlide(s)
    /\ t = None

C7_ParsePositions ==
    LET retained == Retained(content)
    IN  /\ pc # "read_text" => photos_lines = retained
        /\ \A i \in 1..Len(acc) :
              /\ acc[i].photo_id = i - 1
              /\ acc[i] = from_str(i - 1, retained[i])
        /\ pc = "returned" =>
              /\ Len(result.items) = Len(retained)
              /\ \A i \in 1..Len(retained) :
                    /\ result.items[i].photo_id = i - 1
                    /\ result.items[i].orientation = retained[i][1]
                    /\ result.items[i].tags =
                          {split(retained[i], " ")[j] :
                              j \in 3..Len(split(retained[i], " "))}

\* two photos returned from a file whose first line declares 17 and whose
\* last line, without a newline after it, is a well-formed photo line
C7_Witness ==
    /\ pc = "returned"
    /\ Len(result.items) = 2
    /\ result.items[2].photo_id = 1
    /\ LineOf(content, 1) = <<"1", "7">>
    /\ NumLines(content) = 4
    /\ ~BadLine(LineOf(content, 4))

====
